---- MODULE Spec2Model ----
(***************************************************************************)
(* Model of fs/path.py: the path canonicaliser (normpath and the helpers   *)
(* the PathMap uses) and the PathMap trie.                                  *)
(*                                                                         *)
(* A path string is a sequence of one-character strings, so that replace,  *)
(* split, join, startswith and indexing are computed as the code computes  *)
(* them.  A PathMap is the nested dictionary of the code: a function from   *)
(* keys (component names, and the empty name for the value slot) to child  *)
(* dictionaries (and to the stored value under the empty name).            *)
(*                                                                         *)
(* Spec is the PathMap under its methods, SpecNorm the canonicaliser       *)
(* alone, SpecIter the PathMap while the caller holds an iterkeys          *)
(* generator and stores values between its steps.                          *)
(***************************************************************************)
EXTENDS Integers, Sequences, FiniteSets, TLC

VARIABLES
    map,    \* self._map: the nested dictionary of the PathMap
    prev,   \* self._map as it was when the recorded call was made
    last,   \* the recorded call: operation, arguments, exception, return value
    iter    \* the generator of iterkeys the caller holds, if any

vars == <<map, prev, last, iter>>

\* ------------------------------------------------------------------ bounds

\* Longest raw string handed to the canonicaliser on its own.
MaxLen == 4

\* Most dictionary entries (child entries and value slots together) in the
\* whole trie of a PathMap.
MaxEntries == 4

\* ------------------------------------------------------------- strings

Slash == "/"
Backslash == "\\"
Dot == "."

Chars == {Slash, Backslash, Dot, "a", "b"}

\* The empty string, and the key of a node's value slot.
Empty == <<>>

\* Python's None, and the empty dictionary {}.
None == 0

EmptyDict == <<>>

\* What a function returns when normpath raised ValueError.
ValueError == <<"ValueError">>

RawStrings == UNION {[1..n -> Chars] : n \in 0..MaxLen}

\* As ReplaceBackslash, had the code replaced the first backslash only.
ReplaceFirstBackslash(s) ==
    [i \in 1..Len(s) |->
        IF s[i] = Backslash /\ \A j \in 1..(i - 1) : s[j] # Backslash
        THEN Slash ELSE s[i]]

\* str.replace('\\', '/')
ReplaceBackslash(s) == [i \in 1..Len(s) |-> IF s[i] = Backslash THEN Slash ELSE s[i]]

\* str.split('/'): the pieces between slashes; a string without one is one piece.
RECURSIVE SplitSlash(_)
SplitSlash(s) ==
    IF \A i \in 1..Len(s) : s[i] # Slash
    THEN <<s>>
    ELSE LET i == CHOOSE k \in 1..Len(s) :
                      s[k] = Slash /\ \A j \in 1..(k-1) : s[j] # Slash
         IN  <<SubSeq(s, 1, i-1)>> \o SplitSlash(SubSeq(s, i+1, Len(s)))

\* '/'.join(list)
RECURSIVE JoinSlash(_)
JoinSlash(list) ==
    IF list = <<>> THEN Empty
    ELSE IF Len(list) = 1 THEN list[1]
    ELSE list[1] \o <<Slash>> \o JoinSlash(Tail(list))

\* str.startswith('/')
StartsWithSlash(s) == Len(s) > 0 /\ s[1] = Slash

Front(s) == SubSeq(s, 1, Len(s) - 1)

\* As NormComponents, had ".." on an empty stack been passed over in silence.
RECURSIVE NormComponentsClamp(_, _)
NormComponentsClamp(segs, components) ==
    IF segs = <<>> THEN [raised |-> FALSE, components |-> components]
    ELSE LET comp == Head(segs) IN
         IF comp = Empty \/ comp = <<Dot>>
         THEN NormComponentsClamp(Tail(segs), components)
         ELSE IF comp = <<Dot, Dot>>
         THEN IF components = <<>>
              THEN NormComponentsClamp(Tail(segs), components)
              ELSE NormComponentsClamp(Tail(segs), Front(components))
         ELSE NormComponentsClamp(Tail(segs), Append(components, comp))

\* The loop of normpath over the split pieces: the component stack, and
\* whether ".." found the stack empty (components.pop() raised IndexError).
RECURSIVE NormComponents(_, _)
NormComponents(segs, components) ==
    IF segs = <<>> THEN [raised |-> FALSE, components |-> components]
    ELSE LET comp == Head(segs) IN
         IF comp = Empty \/ comp = <<Dot>>
         THEN NormComponents(Tail(segs), components)
         ELSE IF comp = <<Dot, Dot>>
         THEN IF components = <<>>
              THEN [raised |-> TRUE, components |-> <<>>]
              ELSE NormComponents(Tail(segs), Front(components))
         ELSE NormComponents(Tail(segs), Append(components, comp))

\* As normpath, without the special case of the root (components = [""]).
normpathNoRoot(path) ==
    IF path = Empty THEN path
    ELSE LET loop == NormComponents(SplitSlash(ReplaceBackslash(path)), <<>>)
             components == loop.components
         IN  IF loop.raised THEN ValueError
             ELSE IF path[1] \in {Backslash, Slash}
             THEN JoinSlash(<<Empty>> \o components)
             ELSE JoinSlash(components)

normpath(path) ==
    IF path = Empty THEN path
    ELSE LET loop == NormComponents(SplitSlash(ReplaceBackslash(path)), <<>>)
             components == loop.components
         IN  IF loop.raised THEN ValueError
             ELSE IF path[1] \in {Backslash, Slash}
             THEN JoinSlash(<<Empty>> \o (IF components = <<>> THEN <<Empty>> ELSE components))
             ELSE JoinSlash(components)

\* relpath: strip every leading '/'.
RECURSIVE relpath(_)
relpath(path) ==
    IF path # Empty /\ path[1] = Slash THEN relpath(Tail(path)) ELSE path

abspath(path) ==
    IF path = Empty THEN <<Slash>>
    ELSE IF ~StartsWithSlash(path) THEN <<Slash>> \o path
    ELSE path

\* As iteratepath, had the code split the path as given, without normpath.
iteratepathRaw(path) ==
    IF normpath(path) = ValueError THEN [raised |-> TRUE, names |-> <<>>]
    ELSE LET rel == relpath(path) IN
         [raised |-> FALSE,
          names  |-> IF rel = Empty THEN <<>> ELSE SplitSlash(rel)]

\* iteratepath(path) with numsplits=None: the component names of the path,
\* and whether normpath raised.
iteratepath(path) ==
    IF normpath(path) = ValueError THEN [raised |-> TRUE, names |-> <<>>]
    ELSE LET rel == relpath(normpath(path)) IN
         [raised |-> FALSE,
          names  |-> IF rel = Empty THEN <<>> ELSE SplitSlash(rel)]

\* The loop of pathjoin over its arguments: the kept pieces, and the flag.
RECURSIVE JoinLoop(_, _, _)
JoinLoop(paths, relpaths, absolute) ==
    IF paths = <<>> THEN [relpaths |-> relpaths, absolute |-> absolute]
    ELSE LET p == Head(paths) IN
         IF p = Empty THEN JoinLoop(Tail(paths), relpaths, absolute)
         ELSE IF p[1] \in {Backslash, Slash}
         THEN JoinLoop(Tail(paths), <<p>>, TRUE)
         ELSE JoinLoop(Tail(paths), Append(relpaths, p), absolute)

pathjoin(paths) ==
    LET loop == JoinLoop(paths, <<>>, FALSE)
        path == normpath(JoinSlash(loop.relpaths))
    IN  IF path = ValueError THEN ValueError
        ELSE IF loop.absolute /\ ~StartsWithSlash(path) THEN <<Slash>> \o path
        ELSE path

\* str.rsplit('/', 1): cut at the last slash, if there is one.
RSplitSlashOnce(s) ==
    IF \A i \in 1..Len(s) : s[i] # Slash
    THEN <<s>>
    ELSE LET i == CHOOSE k \in 1..Len(s) :
                      s[k] = Slash /\ \A j \in (k+1)..Len(s) : s[j] # Slash
         IN  <<SubSeq(s, 1, i-1), SubSeq(s, i+1, Len(s))>>

\* pathsplit(path): the pair (head, tail), and whether normpath raised.
pathsplit(path) ==
    IF normpath(path) = ValueError
    THEN [raised |-> TRUE, head |-> Empty, tail |-> Empty]
    ELSE LET split == RSplitSlashOnce(normpath(path)) IN
         IF Len(split) = 1
         THEN [raised |-> FALSE, head |-> Empty, tail |-> split[1]]
         ELSE [raised |-> FALSE, head |-> split[1], tail |-> split[2]]

\* dirname(path) where pathsplit(path) does not raise.
dirname(path) == pathsplit(path).head

\* str.rstrip('/')
RECURSIVE RStripSlash(_)
RStripSlash(s) ==
    IF s # Empty /\ s[Len(s)] = Slash THEN RStripSlash(Front(s)) ELSE s

\* recursepath with reverse=True: the while loop, from path and the paths
\* collected so far.
RECURSIVE RecurseUp(_, _)
RecurseUp(path, paths) ==
    IF path = Empty THEN [raised |-> FALSE, paths |-> Append(paths, <<Slash>>)]
    ELSE IF pathsplit(path).raised THEN [raised |-> TRUE, paths |-> <<>>]
    ELSE RecurseUp(RStripSlash(dirname(path)), Append(paths, path))

\* recursepath(path, reverse): the list of paths, and whether it raised.
recursepath(path, reverse) ==
    IF reverse
    THEN RecurseUp(RStripSlash(abspath(path)), <<>>)
    ELSE LET it == iteratepath(path)
             paths == <<Empty>> \o it.names
         IN  IF it.raised THEN [raised |-> TRUE, paths |-> <<>>]
             ELSE [raised |-> FALSE,
                   paths  |-> <<<<Slash>>>> \o
                              [i \in 1..(Len(paths) - 1) |-> JoinSlash(SubSeq(paths, 1, i + 1))]]

\* ------------------------------------------------------------- dictionaries

\* d[k] = x
Put(d, k, x) == [j \in DOMAIN d \cup {k} |-> IF j = k THEN x ELSE d[j]]

\* del d[k]
Del(d, k) == [j \in DOMAIN d \ {k} |-> d[j]]

\* Whether the walk m = m[name] over names succeeds from dictionary m.
RECURSIVE HasNode(_, _)
HasNode(m, names) ==
    \/ names = <<>>
    \/ /\ Head(names) \in DOMAIN m
       /\ HasNode(m[Head(names)], Tail(names))

\* The dictionary the walk ends at.
RECURSIVE NodeAt(_, _)
NodeAt(m, names) ==
    IF names = <<>> THEN m ELSE NodeAt(m[Head(names)], Tail(names))

\* The trie after the dictionary at names has become node; the dictionaries
\* missing on the way are created empty (m.setdefault(name, {})).
RECURSIVE Graft(_, _, _)
Graft(m, names, node) ==
    IF names = <<>> THEN node
    ELSE LET name == Head(names)
             subm == IF name \in DOMAIN m THEN m[name] ELSE EmptyDict
         IN  Put(m, name, Graft(subm, Tail(names), node))

\* As Prune, had the loop not tested that the dictionary is empty.
PruneAlways(m, names) ==
    IF Len(names) > 0 THEN Del(m, names[1]) ELSE m

\* As Prune, had the code used "if" for "while": one level at most.
PruneOnce(m, names) ==
    IF Len(names) > 0 /\ DOMAIN NodeAt(m, names) = {}
    THEN LET parent == Front(names) IN
         Graft(m, parent, Del(NodeAt(m, parent), names[Len(names)]))
    ELSE m

\* The loop that ends __delitem__ and pop: while the walked chain is longer
\* than the root and its last dictionary is empty, drop it from its parent.
RECURSIVE Prune(_, _)
Prune(m, names) ==
    IF Len(names) > 0 /\ DOMAIN NodeAt(m, names) = {}
    THEN LET parent == Front(names) IN
         Prune(Graft(m, parent, Del(NodeAt(m, parent), names[Len(names)])), parent)
    ELSE m

\* ------------------------------------------------------------- PathMap
\* Every operation gives the map after the call, the exception it raised
\* ("none" when it returned) and the value it returned.

Outcome(m, exc, ret) == [map |-> m, exc |-> exc, ret |-> ret]

getitemAt(m, it) ==
    IF it.raised THEN Outcome(m, "ValueError", None)
    ELSE IF ~HasNode(m, it.names) THEN Outcome(m, "KeyError", None)
    ELSE IF Empty \notin DOMAIN NodeAt(m, it.names) THEN Outcome(m, "KeyError", None)
    ELSE Outcome(m, "none", NodeAt(m, it.names)[Empty])

getitem(m, path) == getitemAt(m, iteratepath(path))

containsAt(m, it) ==
    LET got == getitemAt(m, it) IN
    IF got.exc = "KeyError" THEN Outcome(m, "none", FALSE)
    ELSE IF got.exc = "none" THEN Outcome(m, "none", TRUE)
    ELSE got

contains(m, path) == containsAt(m, iteratepath(path))

\* The real segments of a path that come before its first "..".
RECURSIVE LeadingComponents(_)
LeadingComponents(segs) ==
    IF segs = <<>> \/ Head(segs) = <<Dot, Dot>> THEN <<>>
    ELSE IF Head(segs) = Empty \/ Head(segs) = <<Dot>> THEN LeadingComponents(Tail(segs))
    ELSE <<Head(segs)>> \o LeadingComponents(Tail(segs))

\* As setitem, had the walk created its dictionaries segment by segment
\* before the whole path was normalized.
setitemPartial(m, path, value) ==
    LET it == iteratepath(path) IN
    IF it.raised
    THEN LET ns == LeadingComponents(SplitSlash(ReplaceBackslash(path)))
             node == IF HasNode(m, ns) THEN NodeAt(m, ns) ELSE EmptyDict
         IN  Outcome(Graft(m, ns, node), "ValueError", None)
    ELSE LET node == IF HasNode(m, it.names) THEN NodeAt(m, it.names) ELSE EmptyDict
         IN  Outcome(Graft(m, it.names, Put(node, Empty, value)), "none", None)

\* As setitem, had the code kept a value already stored.
setitemKeep(m, path, value) ==
    LET it == iteratepath(path) IN
    IF it.raised THEN Outcome(m, "ValueError", None)
    ELSE LET node == IF HasNode(m, it.names) THEN NodeAt(m, it.names) ELSE EmptyDict
         IN  IF Empty \in DOMAIN node
             THEN Outcome(m, "none", None)
             ELSE Outcome(Graft(m, it.names, Put(node, Empty, value)), "none", None)

setitemAt(m, it, value) ==
    IF it.raised THEN Outcome(m, "ValueError", None)
    ELSE LET node == IF HasNode(m, it.names) THEN NodeAt(m, it.names) ELSE EmptyDict
         IN  Outcome(Graft(m, it.names, Put(node, Empty, value)), "none", None)

setitem(m, path, value) == setitemAt(m, iteratepath(path), value)

\* As delitem, had the pruning loop run also when the value slot is missing.
delitemEager(m, path) ==
    LET it == iteratepath(path) IN
    IF it.raised THEN Outcome(m, "ValueError", None)
    ELSE IF ~HasNode(m, it.names) THEN Outcome(m, "KeyError", None)
    ELSE IF Empty \notin DOMAIN NodeAt(m, it.names)
    THEN Outcome(Prune(m, it.names), "KeyError", None)
    ELSE Outcome(Prune(Graft(m, it.names, Del(NodeAt(m, it.names), Empty)), it.names),
                 "none", None)

delitemAt(m, it) ==
    IF it.raised THEN Outcome(m, "ValueError", None)
    ELSE IF ~HasNode(m, it.names) THEN Outcome(m, "KeyError", None)
    ELSE IF Empty \notin DOMAIN NodeAt(m, it.names) THEN Outcome(m, "KeyError", None)
    ELSE Outcome(Prune(Graft(m, it.names, Del(NodeAt(m, it.names), Empty)), it.names),
                 "none", None)

delitem(m, path) == delitemAt(m, iteratepath(path))

\* As pop, without the pruning loop.
popNoPrune(m, path, default) ==
    LET it == iteratepath(path) IN
    IF it.raised THEN Outcome(m, "ValueError", None)
    ELSE IF ~HasNode(m, it.names) THEN Outcome(m, "none", default)
    ELSE IF Empty \notin DOMAIN NodeAt(m, it.names) THEN Outcome(m, "none", default)
    ELSE Outcome(Graft(m, it.names, Del(NodeAt(m, it.names), Empty)),
                 "none", NodeAt(m, it.names)[Empty])

popAt(m, it, default) ==
    IF it.raised THEN Outcome(m, "ValueError", None)
    ELSE IF ~HasNode(m, it.names) THEN Outcome(m, "none", default)
    ELSE IF Empty \notin DOMAIN NodeAt(m, it.names) THEN Outcome(m, "none", default)
    ELSE Outcome(Prune(Graft(m, it.names, Del(NodeAt(m, it.names), Empty)), it.names),
                 "none", NodeAt(m, it.names)[Empty])

pop(m, path, default) == popAt(m, iteratepath(path), default)

\* As setdefault, had the code stored the value unconditionally.
setdefaultOverwrite(m, path, value) ==
    LET it == iteratepath(path) IN
    IF it.raised THEN Outcome(m, "ValueError", None)
    ELSE LET node == IF HasNode(m, it.names) THEN NodeAt(m, it.names) ELSE EmptyDict
         IN  Outcome(Graft(m, it.names, Put(node, Empty, value)), "none", value)

setdefaultAt(m, it, value) ==
    IF it.raised THEN Outcome(m, "ValueError", None)
    ELSE LET node == IF HasNode(m, it.names) THEN NodeAt(m, it.names) ELSE EmptyDict
         IN  IF Empty \in DOMAIN node
             THEN Outcome(Graft(m, it.names, node), "none", node[Empty])
             ELSE Outcome(Graft(m, it.names, Put(node, Empty, value)), "none", value)

setdefault(m, path, value) == setdefaultAt(m, iteratepath(path), value)

\* As clear, had the code dropped the value slot only (del m[""]).
clearValueOnly(m, root) ==
    LET it == iteratepath(root) IN
    IF it.raised THEN Outcome(m, "ValueError", None)
    ELSE IF ~HasNode(m, it.names) THEN Outcome(m, "none", None)
    ELSE Outcome(Graft(m, it.names, Del(NodeAt(m, it.names), Empty)), "none", None)

clearAt(m, it) ==
    IF it.raised THEN Outcome(m, "ValueError", None)
    ELSE IF ~HasNode(m, it.names) THEN Outcome(m, "none", None)
    ELSE Outcome(Graft(m, it.names, EmptyDict), "none", None)

clear(m, root) == clearAt(m, iteratepath(root))

\* Every order in which a dictionary may hand out the keys in S.
RECURSIVE Orders(_)
Orders(S) ==
    IF S = {} THEN {<<>>}
    ELSE UNION {{<<x>> \o rest : rest \in Orders(S \ {x})} : x \in S}

\* iterkeys(root, m) with m given: every sequence of keys the generator may
\* yield, one per iteration order of the dictionaries it walks.
RECURSIVE iterkeysIn(_, _)
RECURSIVE iterkeysAlong(_, _, _)
iterkeysIn(root, m) ==
    UNION {iterkeysAlong(root, m, order) : order \in Orders(DOMAIN m)}

\* As iterkeysAlong, had the code yielded root as it was given.
iterkeysAlongRaw(root, m, order) ==
    IF order = <<>> THEN {<<>>}
    ELSE LET nm == Head(order)
             here == IF nm = Empty
                     THEN {<<root>>}
                     ELSE iterkeysIn(pathjoin(<<root, nm>>), m[nm])
         IN  {first \o rest : first \in here, rest \in iterkeysAlong(root, m, Tail(order))}

iterkeysAlong(root, m, order) ==
    IF order = <<>> THEN {<<>>}
    ELSE LET nm == Head(order)
             here == IF nm = Empty
                     THEN {<<abspath(normpath(root))>>}
                     ELSE iterkeysIn(pathjoin(<<root, nm>>), m[nm])
         IN  {first \o rest : first \in here, rest \in iterkeysAlong(root, m, Tail(order))}

\* keys(root): the outcomes list(self.iterkeys(root)) may have.
keysAt(m, root, it) ==
    IF it.raised THEN {Outcome(m, "ValueError", <<>>)}
    ELSE IF ~HasNode(m, it.names) THEN {Outcome(m, "none", <<>>)}
    ELSE {Outcome(m, "none", ks) : ks \in iterkeysIn(root, NodeAt(m, it.names))}

keys(m, root) == keysAt(m, root, iteratepath(root))

\* As iternamesAlong, had the code tested for a value slot ('"" in subm').
RECURSIVE iternamesAlongValued(_, _)
iternamesAlongValued(m, order) ==
    IF order = <<>> THEN <<>>
    ELSE LET nm == Head(order) IN
         IF nm # Empty /\ Empty \in DOMAIN m[nm]
         THEN <<nm>> \o iternamesAlongValued(m, Tail(order))
         ELSE iternamesAlongValued(m, Tail(order))

\* As iternamesAlong, without the test of the child dictionary ("and subm").
RECURSIVE iternamesAlongAll(_, _)
iternamesAlongAll(m, order) ==
    IF order = <<>> THEN <<>>
    ELSE LET nm == Head(order) IN
         IF nm # Empty
         THEN <<nm>> \o iternamesAlongAll(m, Tail(order))
         ELSE iternamesAlongAll(m, Tail(order))

\* The loop of iternames over one iteration order of the dictionary.
RECURSIVE iternamesAlong(_, _)
iternamesAlong(m, order) ==
    IF order = <<>> THEN <<>>
    ELSE LET nm == Head(order) IN
         IF nm # Empty /\ DOMAIN m[nm] # {}
         THEN <<nm>> \o iternamesAlong(m, Tail(order))
         ELSE iternamesAlong(m, Tail(order))

\* names(root): the outcomes list(self.iternames(root)) may have.
namesAt(m, root, it) ==
    IF it.raised THEN {Outcome(m, "ValueError", <<>>)}
    ELSE IF ~HasNode(m, it.names) THEN {Outcome(m, "none", <<>>)}
    ELSE LET node == NodeAt(m, it.names) IN
         {Outcome(m, "none", iternamesAlong(node, order)) : order \in Orders(DOMAIN node)}

names(m, root) == namesAt(m, root, iteratepath(root))

\* The generator of iterkeys, advanced one next() at a time.  It holds a
\* stack of frames, one per nested call of iterkeys: the root string of the
\* call, the names leading to its dictionary, and the dictionary iterator of
\* its for loop: the size of the dictionary when the iterator was made and
\* the keys it has still to hand out.

\* m.iteritems() begins: one frame per iteration order of the dictionary.
iterkeysEnter(root, ns, node) ==
    {[root |-> root, names |-> ns, used |-> Cardinality(DOMAIN node), todo |-> order] :
        order \in Orders(DOMAIN node)}

\* next() on a generator that has yielded before: the innermost for loop
\* asks its dictionary iterator for the next item.  The iterator raises
\* RuntimeError when the size of its dictionary is no longer the size it
\* was made with, and that ends the generator.
RECURSIVE iterkeysResume(_, _)
iterkeysResume(m, stack) ==
    IF stack = <<>> THEN {[stack |-> <<>>, exc |-> "StopIteration", ret |-> None]}
    ELSE LET f == stack[Len(stack)]
             node == NodeAt(m, f.names)
         IN  IF Cardinality(DOMAIN node) # f.used
             THEN {[stack |-> <<>>, exc |-> "RuntimeError", ret |-> None]}
             ELSE IF f.todo = <<>> THEN iterkeysResume(m, Front(stack))
             ELSE LET nm == Head(f.todo)
                      below == Append(Front(stack), [f EXCEPT !.todo = Tail(f.todo)])
                  IN  IF nm = Empty
                      THEN {[stack |-> below, exc |-> "none", ret |-> abspath(normpath(f.root))]}
                      ELSE UNION {iterkeysResume(m, Append(below, fr)) :
                                     fr \in iterkeysEnter(pathjoin(<<f.root, nm>>),
                                                          Append(f.names, nm), node[nm])}

\* The first next(): the walk to the dictionary of root, then its for loop.
iterkeysStart(m, root) ==
    LET it == iteratepath(root) IN
    IF it.raised THEN {[stack |-> <<>>, exc |-> "ValueError", ret |-> None]}
    ELSE IF ~HasNode(m, it.names)
    THEN {[stack |-> <<>>, exc |-> "StopIteration", ret |-> None]}
    ELSE UNION {iterkeysResume(m, <<fr>>) :
                   fr \in iterkeysEnter(root, it.names, NodeAt(m, it.names))}

\* ------------------------------------------------------------- state

NoCall == [op |-> "init", path |-> Empty, value |-> None, exc |-> "none", ret |-> None]

\* No generator made: state is "none"; then "fresh" until its first next(),
\* "live" while it yields, "done" once it has raised.  dirty: the map was
\* changed by a call made while the generator was live.
NoIter == [state |-> "none", root |-> Empty, stack |-> <<>>, dirty |-> FALSE]

Init ==
    /\ map = EmptyDict
    /\ prev = EmptyDict
    /\ last = NoCall
    /\ iter = NoIter

\* ------------------------------------------------------------- inputs

Values == {1, 2}

\* The default handed to pop.
Default == None

Names == {<<"a">>, <<"b">>}

NameSeqs == UNION {[1..n -> Names] : n \in 0..(MaxEntries - 1)}

\* "/", "/a", "/a/b", ...
CanonicalPaths == {<<Slash>> \o JoinSlash(ns) : ns \in NameSeqs}

\* Other spellings: empty, relative, backslashes, repeated and trailing
\* slashes, "." and ".." segments, and two that normpath rejects.
OtherSpellings ==
    { Empty,
      <<"a">>,
      <<"a", "/", "b">>,
      <<"\\", "b">>,
      <<"/", "a", "/">>,
      <<"/", "/", "b">>,
      <<".", "/", "a">>,
      <<"/", "a", "/", ".", ".", "/", "b">>,
      <<"a", "/", "b", "/", ".", ".">>,
      <<"b", "\\", "a">>,
      <<".", ".">>,
      <<"/", "a", "/", ".", ".", "/", ".", ".">> }

Paths == CanonicalPaths \cup OtherSpellings

\* Number of entries of all the dictionaries of the trie m.
RECURSIVE Entries(_)
RECURSIVE EntriesOver(_, _)
Entries(m) == EntriesOver(m, DOMAIN m)

EntriesOver(m, ks) ==
    IF ks = {} THEN 0
    ELSE LET k == CHOOSE x \in ks : TRUE IN
         1 + (IF k = Empty THEN 0 ELSE Entries(m[k])) + EntriesOver(m, ks \ {k})

\* ------------------------------------------------------------- actions

\* A call is made when the caller holds no result of an earlier one.
Idle == last.op = "init"

\* A call records the map before it, its arguments and its outcome.
Call(op, path, value, out) ==
    /\ Entries(out.map) <= MaxEntries
    /\ map' = out.map
    /\ prev' = map
    /\ last' = [op |-> op, path |-> path, value |-> value,
                exc |-> out.exc, ret |-> out.ret]
    /\ iter' = [iter EXCEPT !.dirty = @ \/ (iter.state = "live" /\ out.map # map)]

GetItem == Idle /\ \E p \in Paths : Call("get", p, None, getitem(map, p))

Contains == Idle /\ \E p \in Paths : Call("contains", p, None, contains(map, p))

SetItem == Idle /\ \E p \in Paths, v \in Values : Call("set", p, v, setitem(map, p, v))

DelItem == Idle /\ \E p \in Paths : Call("delete", p, None, delitem(map, p))

Pop == Idle /\ \E p \in Paths : Call("pop", p, Default, pop(map, p, Default))

SetDefault == Idle /\ \E p \in Paths, v \in Values : Call("setdefault", p, v, setdefault(map, p, v))

Clear == Idle /\ \E p \in Paths : Call("clear", p, None, clear(map, p))

Keys == Idle /\ \E p \in Paths : \E out \in keys(map, p) : Call("keys", p, None, out)

NamesOf == Idle /\ \E p \in Paths : \E out \in names(map, p) : Call("names", p, None, out)

\* The caller takes the result of the call.
Return ==
    /\ last.op \notin {"init", "input"}
    /\ last' = NoCall
    /\ prev' = map
    /\ UNCHANGED <<map, iter>>

Next ==
    \/ Return
    \/ GetItem
    \/ Contains
    \/ SetItem
    \/ DelItem
    \/ Pop
    \/ SetDefault
    \/ Clear
    \/ Keys
    \/ NamesOf

Spec == Init /\ [][Next]_vars

\* ------------------------------------------- a traversal held by the caller

\* The roots the caller traverses from.
IterRoots == {<<Slash>>, <<"a">>}

\* it = m.iterkeys(root): the generator is made; none of its code runs yet.
IterKeys ==
    /\ Idle
    /\ iter.state = "none"
    /\ \E root \in IterRoots : iter' = [NoIter EXCEPT !.state = "fresh", !.root = root]
    /\ UNCHANGED <<map, prev, last>>

\* next(it): the generator runs to its next yield, to its end or to an
\* exception; the caller gets the key, StopIteration or the exception.
IterNext ==
    /\ Idle
    /\ iter.state \in {"fresh", "live"}
    /\ \E out \in (IF iter.state = "fresh" THEN iterkeysStart(map, iter.root)
                   ELSE iterkeysResume(map, iter.stack)) :
          /\ iter' = [iter EXCEPT !.state = IF out.exc = "none" THEN "live" ELSE "done",
                                  !.stack = out.stack]
          /\ last' = [op |-> "next", path |-> iter.root, value |-> None,
                      exc |-> out.exc, ret |-> out.ret]
    /\ prev' = map
    /\ UNCHANGED map

\* The caller makes one traversal and, before and between its steps, stores
\* values.  (set and setdefault remove no dictionary from the trie, so each
\* frame's dictionary is the one found under its names.)
NextIter ==
    \/ Return
    \/ SetItem
    \/ SetDefault
    \/ IterKeys
    \/ IterNext

SpecIter == Init /\ [][NextIter]_vars

\* ------------------------------------------------- the canonicaliser alone

InitNorm ==
    /\ map = EmptyDict
    /\ prev = EmptyDict
    /\ \E p \in RawStrings : last = [NoCall EXCEPT !.op = "input", !.path = p]
    /\ iter = NoIter

CallNormpath(p) ==
    /\ last.op = "input"
    /\ last.path = p
    /\ last' = [op |-> "normpath", path |-> p, value |-> None,
                exc |-> IF normpath(p) = ValueError THEN "ValueError" ELSE "none",
                ret |-> normpath(p)]
    /\ UNCHANGED <<map, prev, iter>>

\* pathsplit(p), then pathjoin of the head and the tail it gave.
CallSplitJoin(p) ==
    /\ last.op = "input"
    /\ last.path = p
    /\ LET split == pathsplit(p) IN
       last' = [op |-> "splitjoin", path |-> p, value |-> split,
                exc |-> IF split.raised THEN "ValueError" ELSE "none",
                ret |-> IF split.raised THEN ValueError
                        ELSE pathjoin(<<split.head, split.tail>>)]
    /\ UNCHANGED <<map, prev, iter>>

\* recursepath(p) and recursepath(p, reverse=True).
CallRecursepath(p) ==
    /\ last.op = "input"
    /\ last.path = p
    /\ LET forward == recursepath(p, FALSE)
           backward == recursepath(p, TRUE)
       IN  last' = [op |-> "recursepath", path |-> p, value |-> forward,
                    exc |-> IF forward.raised \/ backward.raised
                            THEN "ValueError" ELSE "none",
                    ret |-> backward]
    /\ UNCHANGED <<map, prev, iter>>

NextNorm ==
    \E p \in RawStrings :
        \/ CallNormpath(p)
        \/ CallSplitJoin(p)
        \/ CallRecursepath(p)

SpecNorm == InitNorm /\ [][NextNorm]_vars

\* ------------------------------------------------------------- vocabulary
\* What the statements below say about a trie, read off it by walking.

\* iteratepath of every path the calls draw from.
PathNames == [p \in Paths |-> iteratepath(p)]

\* The names of the path of the recorded call.
CallNames == PathNames[last.path].names

\* The recorded call returned (raised nothing).
Returned(op) == last.op = op /\ last.exc = "none"

IsPrefixSeq(r, ns) == Len(r) <= Len(ns) /\ SubSeq(ns, 1, Len(r)) = r

\* The canonical absolute string of a sequence of names.
Render(ns) == <<Slash>> \o JoinSlash(ns)

\* The nodes of the trie, and those carrying a value, as name sequences.
NodesOf(m) == {ns \in NameSeqs : HasNode(m, ns)}

StoredOf(m) == {ns \in NodesOf(m) : Empty \in DOMAIN NodeAt(m, ns)}

ValuesOf(m) == [ns \in StoredOf(m) |-> NodeAt(m, ns)[Empty]]

Range(seq) == {seq[i] : i \in 1..Len(seq)}

\* ------------------------------------------------------------- C1

\* C1: after set(p, v), get(p) returns v, whatever was stored at p before;
\* and after set(p, v) then delete(p), get(p) fails with KeyError and
\* contains(p) is false.  The root path "/" is no exception.
Thm_C1_SetGetDelete ==
    Returned("set") =>
        /\ getitemAt(map, PathNames[last.path]).exc = "none"
        /\ getitemAt(map, PathNames[last.path]).ret = last.value
        /\ LET deleted == delitemAt(map, PathNames[last.path]) IN
           /\ deleted.exc = "none"
           /\ getitemAt(deleted.map, PathNames[last.path]).exc = "KeyError"
           /\ containsAt(deleted.map, PathNames[last.path]).ret = FALSE

\* set("/", v) over a different earlier value at the root.
Wit_C1_OverwriteRoot ==
    /\ Returned("set")
    /\ last.path = <<Slash>>
    /\ getitemAt(prev, PathNames[last.path]).exc = "none"
    /\ getitemAt(prev, PathNames[last.path]).ret # last.value

\* ------------------------------------------------------------- C2

\* The deepest node of the walked chain that a successful delete of the
\* value at ns must keep: the root, or a node that (the value at ns apart)
\* has a value, or a child off the chain below it.
Kept(m, ns, k) ==
    \/ k = 0
    \/ k < Len(ns) /\ Empty \in DOMAIN NodeAt(m, SubSeq(ns, 1, k))
    \/ \E c \in DOMAIN NodeAt(m, SubSeq(ns, 1, k)) :
           /\ c # Empty
           /\ k < Len(ns) => c # ns[k + 1]

LastKept(m, ns) ==
    CHOOSE k \in 0..Len(ns) :
        /\ Kept(m, ns, k)
        /\ \A j \in (k + 1)..Len(ns) : ~Kept(m, ns, j)

\* C2: a successful delete(p) clears the value at p and removes exactly the
\* nodes of the walked chain below the deepest one that still has a child or
\* a value (or is the root); all other nodes and values stay.  Deleting the
\* only entry of the map leaves the empty root, and inserting still works.
Thm_C2_DeletePrunes ==
    Returned("delete") =>
        LET ns == CallNames
            k  == LastKept(prev, ns)
            gone == {SubSeq(ns, 1, j) : j \in (k + 1)..Len(ns)}
        IN  /\ NodesOf(map) = NodesOf(prev) \ gone
            /\ StoredOf(map) = StoredOf(prev) \ {ns}
            /\ \A q \in StoredOf(map) : ValuesOf(map)[q] = ValuesOf(prev)[q]
            /\ StoredOf(prev) = {ns} /\ NodesOf(prev) = {SubSeq(ns, 1, j) : j \in 0..Len(ns)}
                   => map = EmptyDict
            /\ getitemAt(setitemAt(map, PathNames[last.path], 1).map, PathNames[last.path]).ret = 1

\* delete("/a/b/a") of the only entry: three nodes pruned, empty root left.
Wit_C2_ChainOfThree ==
    /\ Returned("delete")
    /\ Len(CallNames) = 3
    /\ StoredOf(prev) = {CallNames}
    /\ Cardinality(NodesOf(prev)) = 4
    /\ map = EmptyDict

\* ------------------------------------------------------------- C3

\* C3: clear(root_path) removes the values at root_path and beneath it and
\* leaves every other stored value as it was; with a component of root_path
\* missing from the trie it changes nothing.
Thm_C3_ClearPrefix ==
    Returned("clear") =>
        LET r == CallNames IN
        /\ StoredOf(map) = {q \in StoredOf(prev) : ~IsPrefixSeq(r, q)}
        /\ \A q \in StoredOf(map) : ValuesOf(map)[q] = ValuesOf(prev)[q]
        /\ ~HasNode(prev, r) => map = prev

\* clear of a non-root path with a value beneath it, another value staying.
Wit_C3_ClearBeneath ==
    /\ Returned("clear")
    /\ Len(CallNames) = 1
    /\ \E q \in StoredOf(prev) : IsPrefixSeq(CallNames, q) /\ q # CallNames
    /\ StoredOf(map) # {}

\* ------------------------------------------------------------- C4

\* C4: keys(root_path) lists exactly the canonical absolute paths that carry
\* a value at or beneath root_path, each once, in whatever order; nothing
\* when root_path is missing from the trie; canonical and absolute also when
\* root_path is relative or not canonical.
Thm_C4_KeysExact ==
    Returned("keys") =>
        LET r == CallNames
            expected == {Render(q) : q \in {s \in StoredOf(map) : IsPrefixSeq(r, s)}}
        IN  /\ Range(last.ret) = expected
            /\ Len(last.ret) = Cardinality(expected)
            /\ ~HasNode(map, r) => last.ret = <<>>

\* keys of a relative, non-canonical root with two values beneath it.
Wit_C4_RelativeRoot ==
    /\ Returned("keys")
    /\ last.path # Empty
    /\ last.path[1] # Slash
    /\ normpath(last.path) # last.path
    /\ Len(last.ret) = 2

\* ------------------------------------------------------------- C5

\* The children of the node at r that have a value or a child of their own.
LiveChildren(m, r) ==
    {c \in Names :
        /\ HasNode(m, Append(r, c))
        /\ \/ Empty \in DOMAIN NodeAt(m, Append(r, c))
           \/ \E d \in Names : HasNode(m, r \o <<c, d>>)}

\* C5: names(root_path) lists exactly the names of the children of the node
\* at root_path that have a value or further structure, each once: never the
\* empty name of the value slot, never a deeper descendant; and nothing when
\* root_path is missing from the trie.
Thm_C5_NamesExact ==
    Returned("names") =>
        LET r == CallNames IN
        /\ Range(last.ret) = (IF HasNode(map, r) THEN LiveChildren(map, r) ELSE {})
        /\ Len(last.ret) = Cardinality(Range(last.ret))
        /\ Empty \notin Range(last.ret)

\* names of a node that has a value itself and a child with a child.
Wit_C5_ValueAndGrandchild ==
    /\ Returned("names")
    /\ CallNames \in StoredOf(map)
    /\ Len(last.ret) = 1
    /\ \E d \in Names : HasNode(map, CallNames \o <<last.ret[1], d>>)

\* ------------------------------------------------------------- C6

\* C6: delete(p) of a path that has no stored value (a component missing, or
\* the node there without a value) raises KeyError and leaves the trie, its
\* structure and its values, as it was.
Thm_C6_DeleteAbsent ==
    last.op = "delete" /\ last.exc # "ValueError" =>
        /\ last.exc = "KeyError" <=> CallNames \notin StoredOf(prev)
        /\ last.exc = "KeyError" => map = prev

\* delete of a node that exists, has a child, and has no value.
Wit_C6_NodeWithoutValue ==
    /\ last.op = "delete"
    /\ last.exc = "KeyError"
    /\ HasNode(prev, CallNames)
    /\ Len(CallNames) > 0
    /\ DOMAIN NodeAt(prev, CallNames) # {}

\* ------------------------------------------------------------- C7

\* C7: pop(p, default) never raises KeyError; without a stored value at p it
\* returns default and leaves the trie as it was; with one it returns that
\* value and leaves the trie as a successful delete(p) leaves it.
Thm_C7_PopAsDelete ==
    last.op = "pop" =>
        /\ last.exc # "KeyError"
        /\ last.exc = "none" =>
              LET deleted == delitemAt(prev, PathNames[last.path]) IN
              IF deleted.exc = "none"
              THEN /\ last.ret = getitemAt(prev, PathNames[last.path]).ret
                   /\ map = deleted.map
              ELSE /\ deleted.exc = "KeyError"
                   /\ last.ret = last.value
                   /\ map = prev

\* pop of the only value beneath a chain of two nodes, both pruned.
Wit_C7_PopPrunes ==
    /\ Returned("pop")
    /\ last.ret \in Values
    /\ Cardinality(NodesOf(prev)) = Cardinality(NodesOf(map)) + 2

\* ------------------------------------------------------------- C8

\* C8: set_default(p, v) stores v at p only when p has no stored value,
\* creating the missing nodes; it leaves a value already there untouched;
\* it returns the value stored at p after the call, which get(p) returns too.
Thm_C8_SetDefault ==
    Returned("setdefault") =>
        LET before == getitemAt(prev, PathNames[last.path]) IN
        /\ before.exc = "none" => map = prev /\ last.ret = before.ret
        /\ before.exc = "KeyError" =>
              /\ last.ret = last.value
              /\ StoredOf(map) = StoredOf(prev) \cup {CallNames}
              /\ \A q \in StoredOf(prev) : ValuesOf(map)[q] = ValuesOf(prev)[q]
        /\ getitemAt(map, PathNames[last.path]).exc = "none"
        /\ getitemAt(map, PathNames[last.path]).ret = last.ret

\* set_default offering a value different from the one already stored.
Wit_C8_KeepsExisting ==
    /\ Returned("setdefault")
    /\ getitemAt(prev, PathNames[last.path]).exc = "none"
    /\ getitemAt(prev, PathNames[last.path]).ret # last.value
    /\ Len(CallNames) > 0

\* ------------------------------------------------------------- C9

\* C9: normalize is idempotent: where normpath(p) succeeds, normpath of its
\* result succeeds and gives the same string.
Thm_C9_Idempotent ==
    Returned("normpath") => normpath(last.ret) = last.ret

\* An input that normpath changes: a backslash and repeated slashes.
Wit_C9_Changed ==
    /\ Returned("normpath")
    /\ last.path = <<Backslash, "a", Slash, Slash>>
    /\ last.ret = <<Slash, "a">>

\* ------------------------------------------------------------- C10

\* Positions i..j of s are one of the pieces between its slashes.
IsSegment(s, i, j) ==
    /\ i <= j
    /\ i = 1 \/ s[i - 1] = Slash
    /\ j = Len(s) \/ s[j + 1] = Slash
    /\ \A k \in i..j : s[k] # Slash

\* No component of the input remains: it is made of separators and "."
\* segments only, or ".." segments have taken back every component.
NoComponentLeft(in) ==
    \/ /\ \A i \in 1..Len(in) : in[i] \in {Slash, Backslash, Dot}
       /\ \A i \in 1..(Len(in) - 1) : ~(in[i] = Dot /\ in[i + 1] = Dot)
    \/ NormComponents(SplitSlash(ReplaceBackslash(in)), <<>>) =
           [raised |-> FALSE, components |-> <<>>]

RECURSIVE Underflows(_, _)
Underflows(segs, depth) ==
    /\ segs # <<>>
    /\ LET seg == Head(segs) IN
       IF seg = <<Dot, Dot>>
       THEN depth = 0 \/ Underflows(Tail(segs), depth - 1)
       ELSE IF seg = Empty \/ seg = <<Dot>>
       THEN Underflows(Tail(segs), depth)
       ELSE Underflows(Tail(segs), depth + 1)

\* C11: normpath raises ValueError exactly when, segment by segment, a ".."
\* is met with no pushed segment left to pop, for relative and absolute
\* inputs alike; it never clamps to the root; every other input succeeds.
Thm_C11_TooManyBackrefs ==
    last.op = "normpath" =>
        /\ last.exc \in {"none", "ValueError"}
        /\ last.exc = "ValueError" <=>
               Underflows(SplitSlash(ReplaceBackslash(last.path)), 0)

\* "/..": an absolute input with one ".." too many.
Wit_C11_AboveRoot ==
    /\ last.op = "normpath"
    /\ last.path = <<Slash, Dot, Dot>>
    /\ last.exc = "ValueError"


\* ------------------------------------------------------------- C12

\* A string in canonical form that begins with a slash.
CanonicalAbsolute(p) == StartsWithSlash(p) /\ normpath(p) = p

\* C12: for every canonical absolute path p, the root and the paths of one
\* component included, joining the head and the tail of split(p) gives p.
CE_C12_SplitJoinRoundTrip ==
    last.op = "splitjoin" /\ CanonicalAbsolute(last.path) =>
        /\ last.exc = "none"
        /\ last.ret = last.path

\* ------------------------------------------------------------- C18

Reverse(seq) == [i \in 1..Len(seq) |-> seq[Len(seq) + 1 - i]]

\* C18: where recursepath succeeds, its reverse=True result is the reversal
\* of its default result: the same canonical absolute paths, one per prefix
\* of the components, "/" first by default and last in reverse; also for
\* inputs that are not canonical.
CE_C18_ReverseIsReversal ==
    Returned("recursepath") =>
        /\ last.ret.paths = Reverse(last.value.paths)
        /\ last.value.paths[1] = <<Slash>>
        /\ last.ret.paths[Len(last.ret.paths)] = <<Slash>>
        /\ \A i \in 1..Len(last.ret.paths) : CanonicalAbsolute(last.ret.paths[i])


\* ------------------------------------------------------------- C13

PathMapOps ==
    {"get", "contains", "set", "setdefault", "delete", "pop", "clear", "keys", "names"}

\* The paths with more ".." than components before them.
Rejected == [p \in Paths |-> Underflows(SplitSlash(ReplaceBackslash(p)), 0)]

\* C13: a PathMap operation whose path argument normpath rejects raises
\* that ValueError to its caller (and raises it in no other case), and
\* leaves the trie as it was: no node made, removed or changed.
Thm_C13_InvalidPathAborts ==
    last.op \in PathMapOps =>
        /\ last.exc = "ValueError" <=> Rejected[last.path]
        /\ last.exc = "ValueError" => map = prev

\* set("/a/../..", v) on a map that is not empty.
Wit_C13_SetRejected ==
    /\ last.op = "set"
    /\ last.exc = "ValueError"
    /\ last.path = <<Slash, "a", Slash, Dot, Dot, Slash, Dot, Dot>>
    /\ prev # EmptyDict


\* ------------------------------------------------------------- C16

\* The nodes other than the root that have no child and no value.
EmptyNodes(m) == {ns \in NodesOf(m) : ns # <<>> /\ DOMAIN NodeAt(m, ns) = {}}

Mutators == {"set", "setdefault", "delete", "pop"}

\* C16: in every state reachable from the empty map by set, set_default,
\* delete, pop and clear, no node but the root is both childless and
\* valueless.
CE_C16_NoEmptyNode == EmptyNodes(map) = {}

\* C16, amended: set, set_default, delete and pop never leave a childless
\* and valueless node that was not there before, so none exists in a state
\* reached without clear; clear(root_path) leaves at most the node at
\* root_path as such a leaf.  The root is a dictionary in every state.
Thm_C16_OnlyClearLeavesEmpty ==
    /\ last.op \in Mutators => EmptyNodes(map) \subseteq EmptyNodes(prev)
    /\ last.op = "clear" => EmptyNodes(map) \subseteq EmptyNodes(prev) \cup {CallNames}
    /\ DOMAIN map \subseteq Names \cup {Empty}

\* delete that prunes two nodes and leaves no empty node behind.
Wit_C16_DeletePrunesTwo ==
    /\ Returned("delete")
    /\ Cardinality(NodesOf(prev)) = Cardinality(NodesOf(map)) + 2
    /\ StoredOf(map) # {}
    /\ EmptyNodes(map) = {}

\* ------------------------------------------------------------- C17

\* Both strings normalize, and to the same sequence of components.
SameComponents(p, q) ==
    /\ normpath(p) # ValueError
    /\ normpath(q) # ValueError
    /\ relpath(normpath(p)) = relpath(normpath(q))

Spellings == [p \in Paths |-> {q \in Paths : SameComponents(p, q)}]

\* What the operation may leave and return when called on map m.
OutcomesOf(op, m, path, value) ==
    CASE op = "get"        -> {getitemAt(m, PathNames[path])}
      [] op = "contains"   -> {containsAt(m, PathNames[path])}
      [] op = "set"        -> {setitemAt(m, PathNames[path], value)}
      [] op = "setdefault" -> {setdefaultAt(m, PathNames[path], value)}
      [] op = "delete"     -> {delitemAt(m, PathNames[path])}
      [] op = "pop"        -> {popAt(m, PathNames[path], value)}
      [] op = "clear"      -> {clearAt(m, PathNames[path])}
      [] op = "keys"       -> keysAt(m, path, PathNames[path])
      [] op = "names"      -> namesAt(m, path, PathNames[path])

CanonicalNames == [q \in CanonicalPaths |-> PathNames[q].names]

\* C19: set, set_default, a successful delete and pop change the stored
\* value of p only: for every canonical path q with other components,
\* get(q) and contains(q) give after the call what they gave before it;
\* pruning takes no node that has a value or a descendant with one.
Thm_C19_OtherPathsKept ==
    last.op \in Mutators /\ last.exc = "none" =>
        LET p == CallNames IN
        \A q \in CanonicalPaths :
            LET before == getitemAt(prev, PathNames[q])
                after  == getitemAt(map, PathNames[q])
            IN  CanonicalNames[q] # p =>
                    /\ after.exc = before.exc
                    /\ after.ret = before.ret
                    /\ containsAt(map, PathNames[q]).ret = (before.exc = "none")

\* delete that prunes a node while the parent keeps its own value.
Wit_C19_PruneBelowValue ==
    /\ Returned("delete")
    /\ Len(CallNames) = 2
    /\ Front(CallNames) \in StoredOf(map)
    /\ ~HasNode(map, CallNames)

\* ------------------------------------------------------------- C20

\* keys(root) yields at least one path.
KeysNonEmpty(m, root) == \E out \in keys(m, root) : out.ret # <<>>

\* C20: in every reachable state and for every root_path r, names(r)
\* returns c if and only if keys(join(r, c)) is not empty.
CE_C20_NamesIffKeys ==
    Returned("names") =>
        \A c \in Names :
            c \in Range(last.ret) <=> KeysNonEmpty(map, pathjoin(<<last.path, c>>))

\* C20, amended: names(r) returns every c for which keys(join(r, c)) is not
\* empty; and a c it returns has keys(join(r, c)) not empty unless a
\* childless and valueless node, left by clear, lies beneath that child.
Thm_C20_NamesCoverKeys ==
    Returned("names") =>
        \A c \in Names :
            /\ KeysNonEmpty(map, pathjoin(<<last.path, c>>)) => c \in Range(last.ret)
            /\ /\ c \in Range(last.ret)
               /\ \A e \in EmptyNodes(map) : ~IsPrefixSeq(Append(CallNames, c), e)
               => KeysNonEmpty(map, pathjoin(<<last.path, c>>))

\* names of a relative root listing a child that has only a deeper value.
Wit_C20_ChildWithDeeperValue ==
    /\ Returned("names")
    /\ last.path = <<"a">>
    /\ Len(last.ret) = 1
    /\ Append(CallNames, last.ret[1]) \notin StoredOf(map)
    /\ EmptyNodes(map) = {}


\* ------------------------------------------------------------- C14

\* C14: keys traverses in pre-order: a key is listed before every key
\* beneath it, and the keys beneath one node are listed contiguously.
CE_C14_PreOrder ==
    Returned("keys") =>
        LET ks == last.ret
            ns(i) == CanonicalNames[ks[i]]
        IN  /\ \A i, j \in 1..Len(ks) :
                   i # j /\ IsPrefixSeq(ns(i), ns(j)) => i < j
            /\ \A i, j, k \in 1..Len(ks) :
                   i < j /\ j < k =>
                       \A n \in 0..Len(ns(i)) :
                           IsPrefixSeq(SubSeq(ns(i), 1, n), ns(k)) =>
                               IsPrefixSeq(SubSeq(ns(i), 1, n), ns(j))


\* ------------------------------------------------------------- C15

\* C15: once the map was changed while a traversal is live, the next step
\* of the traversal fails: it neither yields a key nor ends as if nothing
\* had happened.
CE_C15_FailFast ==
    last.op = "next" /\ iter.dirty => last.exc = "RuntimeError"

====
